---- MODULE Spec2Model ----
(***************************************************************************)
(* Food To Save logistics dashboard (streamlit_dashboard.py).              *)
(*                                                                         *)
(* One run of the script is a pipeline: load the filtered deliveries,      *)
(* compute the headline KPIs, aggregate per city and pick the best partner *)
(* of each city, detect anomalous days, recommend a partner for long       *)
(* distances.  Every stage is one action; pc is the position of the run.   *)
(*                                                                         *)
(* Numbers.  The script computes in floating point; the model computes the *)
(* same quantities exactly, as rationals <<numerator, denominator>> with a *)
(* positive denominator.  <<0, 0>> stands for NaN (the mean of nothing,    *)
(* 0/0): every comparison with it is FALSE, as in IEEE arithmetic.         *)
(*                                                                         *)
(* Columns.  Only the columns the modelled stages read are kept: id,       *)
(* data_hora, parceiro, cidade, status_entrega (and the derived data and   *)
(* hora).  distancia_km, sla_minutos, latitude and longitude feed means    *)
(* and the map only.                                                       *)
(***************************************************************************)
EXTENDS Integers, Sequences, FiniteSets

\* ------------------------------------------------------------------ bounds
\* Number of clock ticks in a calendar day (24 hours in the program).
HorasPorDia == 2
\* Timestamps of the load stage range over 0..MaxTempo.
MaxTempo == 2
\* Largest number of rows of the 'entregas' table in the load stage.
MaxEntregas == 2
\* Largest filtered set handed to the KPI and map stages.
MaxRegistros == 3
\* Anomaly stage: days of an arbitrary series, and records on one day.
MaxDias == 3
MaxPorDia == 3
\* Anomaly stage: days of a series with a single day of cancellations.
MaxDiasPico == 6
\* Anomaly stage: records on one day of a series of too few days.
MaxConcentrado == 8
\* Largest number of rows of the distance-performance rollup.
MaxLinhas == 3

\* ------------------------------------------------------------- vocabulary
None == "None"
NaN == <<0, 0>>
Parceiros == {"Uber", "99"}
Cidades == {"Campinas", "Santos"}
Estados == {"entregue", "cancelado", "pendente"}
\* Python compares strings by code point: '9' < 'C' < 'L' < 'S' < 'U'.
Alfabetico == <<"99", "Campinas", "Loggi", "Santos", "Uber">>
Pos(s) == CHOOSE i \in 1..Len(Alfabetico) : Alfabetico[i] = s
FaixasLongas == {"4-6km", "6-10km", "10km+"}
Faixas == {"0-2km"} \cup FaixasLongas
ParceirosDistancia == {"Uber", "99", "Loggi"}
Taxas == {4, 6}

\* ------------------------------------------------------------- timestamps
\* A Timestamp is a number of ticks.  isoformat() writes it as date and time
\* of day; the store compares such values field by field, and to_datetime
\* reads them back.
isoformat(t) == <<t \div HorasPorDia, t % HorasPorDia>>
to_datetime(iso) == iso[1] * HorasPorDia + iso[2]
dt_date(t) == t \div HorasPorDia
dt_hour(t) == t % HorasPorDia
Gte(col, arg) == col[1] > arg[1] \/ (col[1] = arg[1] /\ col[2] >= arg[2])
LteStrict(col, arg) == col[1] < arg[1] \/ (col[1] = arg[1] /\ col[2] < arg[2])
Lte(col, arg) == col[1] < arg[1] \/ (col[1] = arg[1] /\ col[2] <= arg[2])

\* Python truthiness of an optional string argument.
Truthy(s) == s # None /\ s # ""

\* -------------------------------------------------------------- the state
VARIABLES
  entregas,            \* rows of the remote table 'entregas'
  df_distancia,        \* rows of the rollup 'analise_distancia_performance'
  data_inicio,         \* arguments of load_entregas_data
  data_fim,
  parceiro_filtro,
  cidade_filtro,
  df_entregas,         \* the filtered deliveries
  total_entregas,
  total_cancelamentos,
  taxa_cancelamento,
  melhor_parceiro,
  mapa_dados,          \* the per-city aggregate, after the merge
  melhor_parceiro_cidade,
  cancelamentos_diarios,
  anomalias,           \* the dates flagged
  insight1,            \* what the anomaly column rendered
  recomendacao,
  pc

vars == <<entregas, df_distancia, data_inicio, data_fim, parceiro_filtro,
          cidade_filtro, df_entregas, total_entregas, total_cancelamentos,
          taxa_cancelamento, melhor_parceiro, mapa_dados,
          melhor_parceiro_cidade, cancelamentos_diarios, anomalias, insight1,
          recomendacao, pc>>

resultados == <<total_entregas, total_cancelamentos, taxa_cancelamento,
                melhor_parceiro, mapa_dados, melhor_parceiro_cidade,
                cancelamentos_diarios, anomalias, insight1, recomendacao>>

filtros == <<data_inicio, data_fim, parceiro_filtro, cidade_filtro>>

\* Nothing computed or rendered yet.
SemResultados ==
  /\ total_entregas = 0
  /\ total_cancelamentos = 0
  /\ taxa_cancelamento = <<0, 1>>
  /\ melhor_parceiro = "N/A"
  /\ mapa_dados = <<>>
  /\ melhor_parceiro_cidade = <<>>
  /\ cancelamentos_diarios = <<>>
  /\ anomalias = {}
  /\ insight1 = "nenhum"
  /\ recomendacao = "nenhuma"

\* ------------------------------------------------------- load_entregas_data
\* One row of the table as the store returns it: data_hora is ISO text.
Linha(i, t, p, c, s) ==
  [id |-> i, data_hora |-> isoformat(t), parceiro |-> p, cidade |-> c,
   status_entrega |-> s]

\* The row after the post-processing of the data frame.
Registro(l) ==
  [id |-> l.id, data_hora |-> to_datetime(l.data_hora),
   parceiro |-> l.parceiro, cidade |-> l.cidade,
   status_entrega |-> l.status_entrega,
   data |-> dt_date(to_datetime(l.data_hora)),
   hora |-> dt_hour(to_datetime(l.data_hora))]

load_entregas_data(tabela, inicio, fim, parceiro, cidade) ==
  { Registro(l) : l \in
      { l \in tabela :
          /\ Gte(l.data_hora, isoformat(inicio))
          /\ Lte(l.data_hora, isoformat(fim))
          /\ (Truthy(parceiro) /\ parceiro # "Todos") => l.parceiro = parceiro
          /\ (Truthy(cidade) /\ cidade # "Todas") => l.cidade = cidade } }

\* The call of the script: the sidebar's choices are the arguments.
CarregarDados ==
  /\ pc = "carregar"
  /\ \E i \in 0..MaxTempo, f \in 0..MaxTempo,
        p \in {None, "Todos"} \cup Parceiros,
        c \in {None, "", "Todas"} \cup Cidades :
       /\ data_inicio' = i
       /\ data_fim' = f
       /\ parceiro_filtro' = p
       /\ cidade_filtro' = c
       /\ df_entregas' = load_entregas_data(entregas, i, f, p, c)
  /\ pc' = "kpis"
  /\ UNCHANGED <<entregas, df_distancia, resultados>>

\* One id per combination of attributes: identifiers are unique.
IdDe(t, p, c) == 1 + (t * 2 + (IF p = "Uber" THEN 1 ELSE 0)) * 2
                   + (IF c = "Santos" THEN 1 ELSE 0)

LinhasLoad ==
  { Linha(IdDe(t, p, c), t, p, c, "entregue") :
      t \in 0..MaxTempo, p \in Parceiros, c \in Cidades }

RECURSIVE AteN(_, _)
\* The subsets of U with at most n elements.
AteN(U, n) ==
  IF n = 0 THEN {{}}
  ELSE LET menor == AteN(U, n - 1)
       IN  menor \cup { s \cup {x} : s \in menor, x \in U }

DistanciaFixa ==
  << [parceiro |-> "Uber", faixa_distancia |-> "4-6km", taxa_cancelamento |-> 4],
     [parceiro |-> "99", faixa_distancia |-> "4-6km", taxa_cancelamento |-> 6] >>

Init ==
  /\ entregas \in AteN(LinhasLoad, MaxEntregas)
  /\ df_distancia = DistanciaFixa
  /\ data_inicio = 0
  /\ data_fim = 0
  /\ parceiro_filtro = "Todos"
  /\ cidade_filtro = "Todas"
  /\ df_entregas = {}
  /\ SemResultados
  /\ pc = "carregar"

\* ------------------------------------------------------ grouping helpers
RECURSIVE OrdenarTexto(_)
\* The strings of S as groupby lists its keys: sorted.
OrdenarTexto(S) ==
  IF S = {} THEN <<>>
  ELSE LET m == CHOOSE x \in S : \A y \in S : Pos(x) <= Pos(y)
       IN  <<m>> \o OrdenarTexto(S \ {m})

RECURSIVE OrdenarInteiros(_)
OrdenarInteiros(S) ==
  IF S = {} THEN <<>>
  ELSE LET m == CHOOSE x \in S : \A y \in S : x <= y
       IN  <<m>> \o OrdenarInteiros(S \ {m})

RECURSIVE Soma(_)
\* The sum of a sequence of integers.
Soma(s) == IF s = <<>> THEN 0 ELSE Head(s) + Soma(Tail(s))

RECURSIVE Concatenar(_)
\* The concatenation of a sequence of sequences.
Concatenar(ss) == IF ss = <<>> THEN <<>> ELSE Head(ss) \o Concatenar(Tail(ss))

\* Series.idxmax over the positions idx of vals: the last / the smallest.
IdxMaxUltimo(vals, idx) ==
  CHOOSE i \in idx : /\ \A j \in idx : vals[j] <= vals[i]
                     /\ \A j \in idx : j > i => vals[j] < vals[i]
IdxMin(vals, idx) ==
  CHOOSE i \in idx : /\ \A j \in idx : vals[j] >= vals[i]
                     /\ \A j \in idx : j < i => vals[j] > vals[i]
\* Series.idxmax over the positions idx of vals: the first position that
\* holds the maximum.
IdxMax(vals, idx) ==
  CHOOSE i \in idx : /\ \A j \in idx : vals[j] <= vals[i]
                     /\ \A j \in idx : j < i => vals[j] < vals[i]

\* --------------------------------------------------------------- the KPIs
NaoEntregues(df) == { r \in df : r.status_entrega # "entregue" }
Cancelados(df) == { r \in df : r.status_entrega = "cancelado" }
Entregues(df) == { r \in df : r.status_entrega = "entregue" }

\* c / n * 100
Percentual(c, n) == <<c * 100, n>>

\* df[status == 'entregue'].groupby('parceiro').size(): one entry per partner
\* that has a delivered row, sorted by partner.
EntreguesPorParceiro(df) ==
  LET chaves == OrdenarTexto({ r.parceiro : r \in Entregues(df) })
  IN  [ i \in 1..Len(chaves) |->
          [parceiro |-> chaves[i],
           size |-> Cardinality({ r \in Entregues(df) : r.parceiro = chaves[i] })] ]

MelhorParceiro(df) ==
  LET s == EntreguesPorParceiro(df)
      vals == [ i \in 1..Len(s) |-> s[i].size ]
  IN  IF s # <<>> THEN s[IdxMax(vals, 1..Len(s))].parceiro ELSE "N/A"

TaxaCancelamento(df) ==
  IF Cardinality(df) > 0
  THEN Percentual(Cardinality(Cancelados(df)), Cardinality(df))
  ELSE <<0, 1>>

CalcularKPIs ==
  /\ pc = "kpis"
  /\ df_entregas # {}
  /\ total_entregas' = Cardinality(df_entregas)
  /\ total_cancelamentos' = Cardinality(Cancelados(df_entregas))
  /\ taxa_cancelamento' = TaxaCancelamento(df_entregas)
  /\ melhor_parceiro' = MelhorParceiro(df_entregas)
  /\ pc' = "mapa"
  /\ UNCHANGED <<entregas, df_distancia, filtros, df_entregas, mapa_dados,
                 melhor_parceiro_cidade, cancelamentos_diarios, anomalias,
                 insight1, recomendacao>>

\* The else branch of the script: nothing but a warning is rendered.
SemDados ==
  /\ pc = "kpis"
  /\ df_entregas = {}
  /\ pc' = "fim"
  /\ UNCHANGED <<entregas, df_distancia, filtros, df_entregas, resultados>>

\* ------------------------------------------------- the per-city aggregate
Nulo == "nan"

\* df.groupby('cidade').agg(...).reset_index(): one row per city, sorted.
AgregarPorCidade(df) ==
  LET chaves == OrdenarTexto({ r.cidade : r \in df })
  IN  [ i \in 1..Len(chaves) |->
          [cidade |-> chaves[i],
           total_entregas |-> Cardinality({ r \in df : r.cidade = chaves[i] }),
           cancelamentos |->
             Cardinality({ r \in Cancelados(df) : r.cidade = chaves[i] })] ]

\* df[status == 'entregue'].groupby(['cidade', 'parceiro']).size()
\*   .reset_index(name='entregas_sucesso'): one row per pair that has a
\* delivered row, sorted by city, then partner.
SucessoPorCidadeParceiro(df) ==
  LET base == Len(Alfabetico) + 1
      pares == { <<r.cidade, r.parceiro>> : r \in Entregues(df) }
      ordem == OrdenarInteiros({ Pos(k[1]) * base + Pos(k[2]) : k \in pares })
      par(n) == CHOOSE k \in pares : Pos(k[1]) * base + Pos(k[2]) = n
  IN  [ i \in 1..Len(ordem) |->
          [cidade |-> par(ordem[i])[1],
           parceiro |-> par(ordem[i])[2],
           entregas_sucesso |->
             Cardinality({ r \in Entregues(df) :
                             /\ r.cidade = par(ordem[i])[1]
                             /\ r.parceiro = par(ordem[i])[2] })] ]

SemSelecao(s) == s
\* s.loc[s.groupby('cidade')['entregas_sucesso'].idxmax()]: per city, in
\* sorted order, the row at the first maximum.
MelhorPorCidade(s) ==
  LET chaves == OrdenarTexto({ s[i].cidade : i \in 1..Len(s) })
      vals == [ i \in 1..Len(s) |-> s[i].entregas_sucesso ]
  IN  [ k \in 1..Len(chaves) |->
          s[IdxMax(vals, { i \in 1..Len(s) : s[i].cidade = chaves[k] })] ]

MergeInner(esq, dir) ==
  Concatenar(
    [ i \in 1..Len(esq) |->
        LET casam == SelectSeq(dir, LAMBDA d : d.cidade = esq[i].cidade)
        IN  [ j \in 1..Len(casam) |->
                [cidade |-> esq[i].cidade,
                 total_entregas |-> esq[i].total_entregas,
                 cancelamentos |-> esq[i].cancelamentos,
                 parceiro |-> casam[j].parceiro] ] ])
\* esq.merge(dir[['cidade', 'parceiro']], on='cidade', how='left'): every
\* left row once per matching right row, or once with a missing parceiro.
MergeLeft(esq, dir) ==
  Concatenar(
    [ i \in 1..Len(esq) |->
        LET casam == SelectSeq(dir, LAMBDA d : d.cidade = esq[i].cidade)
        IN  IF casam = <<>>
            THEN << [cidade |-> esq[i].cidade,
                     total_entregas |-> esq[i].total_entregas,
                     cancelamentos |-> esq[i].cancelamentos,
                     parceiro |-> Nulo] >>
            ELSE [ j \in 1..Len(casam) |->
                     [cidade |-> esq[i].cidade,
                      total_entregas |-> esq[i].total_entregas,
                      cancelamentos |-> esq[i].cancelamentos,
                      parceiro |-> casam[j].parceiro] ] ])

AgregarMapa ==
  /\ pc = "mapa"
  /\ melhor_parceiro_cidade' =
       MelhorPorCidade(SucessoPorCidadeParceiro(df_entregas))
  /\ mapa_dados' =
       MergeLeft(AgregarPorCidade(df_entregas),
                 MelhorPorCidade(SucessoPorCidadeParceiro(df_entregas)))
  /\ pc' = "insights1"
  /\ UNCHANGED <<entregas, df_distancia, filtros, df_entregas, total_entregas,
                 total_cancelamentos, taxa_cancelamento, melhor_parceiro,
                 cancelamentos_diarios, anomalias, insight1, recomendacao>>

\* A filtered set of n rows, all stamped 0: ids 1..n.
RegistrosPainel(n, f) ==
  { [id |-> i, data_hora |-> 0, parceiro |-> f[i][1], cidade |-> f[i][2],
     status_entrega |-> f[i][3], data |-> 0, hora |-> 0] : i \in 1..n }

\* The script after a load with the default selectors returned df_entregas.
InitPainel ==
  /\ \E n \in 0..MaxRegistros : \E f \in [1..n -> Parceiros \X Cidades \X Estados] :
       df_entregas = RegistrosPainel(n, f)
  /\ entregas = { Linha(r.id, r.data_hora, r.parceiro, r.cidade, r.status_entrega) :
                    r \in df_entregas }
  /\ df_distancia = DistanciaFixa
  /\ data_inicio = 0
  /\ data_fim = 0
  /\ parceiro_filtro = "Todos"
  /\ cidade_filtro = "Todas"
  /\ SemResultados
  /\ pc = "kpis"

NextPainel == CalcularKPIs \/ SemDados \/ AgregarMapa

SpecPainel == InitPainel /\ [][NextPainel]_vars

\* ------------------------------------------------------ anomaly detection
RECURSIVE Gcd(_, _)
Gcd(a, b) == IF b = 0 THEN a ELSE Gcd(b, a % b)

Lcm(a, b) == (a \div Gcd(a, b)) * b

RECURSIVE LcmSeq(_)
LcmSeq(s) == IF s = <<>> THEN 1 ELSE Lcm(Head(s), LcmSeq(Tail(s)))

\* A rational in lowest terms (d > 0).
Racional(n, d) == <<n \div Gcd(n, d), d \div Gcd(n, d)>>

\* The thresholds of the two guards of the anomaly column:
\* len(df_entregas) > 7 and len(cancelamentos_diarios) > 2.
LimiarRegistros == 7
LimiarDias == 2

\* q > k for a rational q; FALSE when q is NaN.
MaiorQue(q, k) == q[2] # 0 /\ q[1] > k * q[2]

\* df.groupby('data').apply(cancelled / len * 100).reset_index(name='taxa'):
\* one row per calendar date, sorted by date.
CancelamentosDiarios(df) ==
  LET dias == OrdenarInteiros({ r.data : r \in df })
  IN  [ i \in 1..Len(dias) |->
          [data |-> dias[i],
           taxa |-> Percentual(
                      Cardinality({ r \in Cancelados(df) : r.data = dias[i] }),
                      Cardinality({ r \in df : r.data = dias[i] }))] ]

\* The squares of stats.zscore(taxas) (population standard deviation).
\* With the rates x[i] over the common denominator, S their sum, N their
\* number and D[i] = N*x[i] - S:  z[i] = D[i] / sqrt(V / N) with V the sum
\* of the D[i]^2, so z[i]^2 = N * D[i]^2 / V.  When the deviation is 0 every
\* D[i] is 0 and z[i]^2 = <<0, 0>>: the NaN that 0/0 gives.
zscore2(taxas) ==
  LET N == Len(taxas)
      q == [ i \in 1..N |-> Racional(taxas[i][1], taxas[i][2]) ]
      L == LcmSeq([ i \in 1..N |-> q[i][2] ])
      x == [ i \in 1..N |-> q[i][1] * (L \div q[i][2]) ]
      S == Soma(x)
      D == [ i \in 1..N |-> N * x[i] - S ]
      V == Soma([ i \in 1..N |-> D[i] * D[i] ])
  IN  [ i \in 1..N |-> <<N * D[i] * D[i], V>> ]

EhAnomaliaSemGuarda(z2) == z2[1] >= 4 * z2[2]
EhAnomaliaLimiar3(z2) == MaiorQue(z2, 9)
\* np.abs(z) > 2, on the square of z: the days whose z is above 2 whatever
\* the rounding of the floating-point computation.
EhAnomalia(z2) == MaiorQue(z2, 4)

\* |z| is 2 exactly: the comparison z > 2 is decided by the rounding of the
\* double that stats.zscore returns.
NoLimiar(z2) == z2[2] # 0 /\ z2[1] = 4 * z2[2]

RECURSIVE PotenciaDe2(_)
PotenciaDe2(n) == n = 1 \/ (n > 1 /\ n % 2 = 0 /\ PotenciaDe2(n \div 2))

\* n / d is a dyadic rational, which a double of this size holds exactly.
Diadico(n, d) == d # 0 /\ PotenciaDe2(d \div Gcd(n, d))

\* Every step of the floating-point computation is exact: each quotient
\* cancelled / len (the rate before '* 100'), the mean of the rates and their
\* variance are dyadic, so that the deviations, their squares and the sums
\* are too.  Then a z of 2 is the double 2.0, which is not above 2.
CalculoExato(taxas) ==
  LET N == Len(taxas)
      q == [ i \in 1..N |-> Racional(taxas[i][1], taxas[i][2]) ]
      L == LcmSeq([ i \in 1..N |-> q[i][2] ])
      x == [ i \in 1..N |-> q[i][1] * (L \div q[i][2]) ]
      S == Soma(x)
      D == [ i \in 1..N |-> N * x[i] - S ]
      V == Soma([ i \in 1..N |-> D[i] * D[i] ])
  IN  /\ \A i \in 1..N : Diadico(taxas[i][1], 100 * taxas[i][2])
      /\ Diadico(S, N * L)
      /\ Diadico(V, N * N * N * L * L)

\* not df_entregas.empty and len(df_entregas) > 7
AmostraSuficiente(df) == df # {} /\ Cardinality(df) > LimiarRegistros

\* The sets of dates that cancelamentos_diarios[z_scores > 2] can hold: the
\* days whose z is above 2, and, when the computation rounds, any of the days
\* whose z is 2 exactly, days of one rate and one sign being flagged together
\* because they go through the same operations.
Anomalias(diarios) ==
  LET T == [ i \in 1..Len(diarios) |-> diarios[i].taxa ]
      z2 == zscore2(T)
      certas == { j \in 1..Len(diarios) : EhAnomalia(z2[j]) }
      limiar == IF CalculoExato(T) THEN {}
                ELSE { j \in 1..Len(diarios) : NoLimiar(z2[j]) }
      escolhas == { B \in SUBSET limiar :
                      \A i, j \in limiar :
                        T[i][1] * T[j][2] = T[j][1] * T[i][2] =>
                          (i \in B <=> j \in B) }
  IN  { { diarios[i].data : i \in certas \cup B } : B \in escolhas }

DetectarAnomalias ==
  /\ pc = "insights1"
  /\ IF AmostraSuficiente(df_entregas)
     THEN /\ cancelamentos_diarios' = CancelamentosDiarios(df_entregas)
          /\ IF Len(CancelamentosDiarios(df_entregas)) > LimiarDias
             THEN \E a \in Anomalias(CancelamentosDiarios(df_entregas)) :
                    /\ anomalias' = a
                    /\ insight1' = IF a # {} THEN "anomalia" ELSE "sem_anomalia"
             ELSE UNCHANGED <<anomalias, insight1>>
     ELSE UNCHANGED <<cancelamentos_diarios, anomalias, insight1>>
  /\ pc' = "insights3"
  /\ UNCHANGED <<entregas, df_distancia, filtros, df_entregas, total_entregas,
                 total_cancelamentos, taxa_cancelamento, melhor_parceiro,
                 mapa_dados, melhor_parceiro_cidade, recomendacao>>

\* What the KPI and map stages leave behind for a non-empty df_entregas.
PainelCalculado ==
  /\ total_entregas = Cardinality(df_entregas)
  /\ total_cancelamentos = Cardinality(Cancelados(df_entregas))
  /\ taxa_cancelamento = TaxaCancelamento(df_entregas)
  /\ melhor_parceiro = MelhorParceiro(df_entregas)
  /\ melhor_parceiro_cidade =
       MelhorPorCidade(SucessoPorCidadeParceiro(df_entregas))
  /\ mapa_dados =
       MergeLeft(AgregarPorCidade(df_entregas),
                 MelhorPorCidade(SucessoPorCidadeParceiro(df_entregas)))

\* The n records of day d, the first c of them cancelled.
RegistrosDoDia(d, n, c) ==
  { [id |-> d * (MaxConcentrado + 1) + j, data_hora |-> d * HorasPorDia,
     parceiro |-> "Uber", cidade |-> "Campinas",
     status_entrega |-> IF j <= c THEN "cancelado" ELSE "entregue",
     data |-> d, hora |-> 0] : j \in 1..n }

ContagensDoDia == { nc \in (1..MaxPorDia) \X (0..MaxPorDia) : nc[2] <= nc[1] }

\* The records of the days 1..N, day d with cont[d] = <<records, cancelled>>.
Serie(N, cont) == UNION { RegistrosDoDia(d, cont[d][1], cont[d][2]) : d \in 1..N }

\* Any series of up to MaxDias days.
SerieGeral(df) ==
  \E N \in 1..MaxDias : \E f \in [1..N -> ContagensDoDia] : df = Serie(N, f)

\* A series of up to MaxDiasPico days, day k alone with cancellations.
SerieComPico(df) ==
  \E N \in 1..MaxDiasPico, n0 \in 1..MaxPorDia :
    \E k \in 1..N, nc \in { m \in ContagensDoDia : m[2] >= 1 } :
      df = Serie(N, [ d \in 1..N |-> IF d = k THEN nc ELSE <<n0, 0>> ])

ContagensConcentradas ==
  { nc \in (1..MaxConcentrado) \X (0..MaxConcentrado) : nc[2] <= nc[1] }

\* A series of too few days for the guard on the number of days, up to
\* MaxConcentrado records on each: more than 7 records on fewer than 3 dates
\* among them.
SerieConcentrada(df) ==
  \E N \in 1..LimiarDias :
    \E f \in [1..N -> ContagensConcentradas] : df = Serie(N, f)

\* The script before the anomaly column, the stages above it done.
InitAnomalia ==
  /\ \/ SerieGeral(df_entregas)
     \/ SerieComPico(df_entregas)
     \/ SerieConcentrada(df_entregas)
  /\ entregas = { Linha(r.id, r.data_hora, r.parceiro, r.cidade, r.status_entrega) :
                    r \in df_entregas }
  /\ df_distancia = DistanciaFixa
  /\ data_inicio = 0
  /\ data_fim = MaxDiasPico * HorasPorDia
  /\ parceiro_filtro = "Todos"
  /\ cidade_filtro = "Todas"
  /\ PainelCalculado
  /\ cancelamentos_diarios = <<>>
  /\ anomalias = {}
  /\ insight1 = "nenhum"
  /\ recomendacao = "nenhuma"
  /\ pc = "insights1"

SpecAnomalia == InitAnomalia /\ [][DetectarAnomalias]_vars

\* ---------------------------------------------------- the recommendation
\* The sum of the column taxa_cancelamento over the rows of a frame, a row
\* counting as often as it occurs.
RECURSIVE SomaTaxas(_)
SomaTaxas(linhas) ==
  IF linhas = <<>> THEN 0
  ELSE Head(linhas).taxa_cancelamento + SomaTaxas(Tail(linhas))

\* Series.mean(): NaN for no rows.
Media(linhas) ==
  IF linhas = <<>> THEN NaN ELSE <<SomaTaxas(linhas), Len(linhas)>>

\* a < b for rationals; FALSE when either is NaN.
MenorQue(a, b) == a[2] # 0 /\ b[2] # 0 /\ a[1] * b[2] < b[1] * a[2]

\* df[(parceiro == p) & faixa_distancia.isin(faixas)]: the rows the mask
\* keeps, in their order.
RECURSIVE Filtrar(_, _, _)
Filtrar(df, parceiro, faixas) ==
  IF df = <<>> THEN <<>>
  ELSE LET l == Head(df)
       IN  (IF l.parceiro = parceiro /\ l.faixa_distancia \in faixas
            THEN <<l>> ELSE <<>>) \o Filtrar(Tail(df), parceiro, faixas)

MediaTodasFaixas(df, parceiro) == Media(Filtrar(df, parceiro, Faixas))
\* df[(parceiro == p) & faixa_distancia.isin(['4-6km', '6-10km', '10km+'])]
\*   ['taxa_cancelamento'].mean()
MediaLonga(df, parceiro) == Media(Filtrar(df, parceiro, FaixasLongas))

Recomendacao(df) ==
  IF MenorQue(MediaLonga(df, "Uber"), MediaLonga(df, "99"))
  THEN "Uber para entregas > 4km"
  ELSE "99 para entregas > 4km"

Recomendar ==
  /\ pc = "insights3"
  /\ IF df_distancia # <<>>
     THEN recomendacao' = Recomendacao(df_distancia)
     ELSE UNCHANGED recomendacao
  /\ pc' = "fim"
  /\ UNCHANGED <<entregas, df_distancia, filtros, df_entregas, total_entregas,
                 total_cancelamentos, taxa_cancelamento, melhor_parceiro,
                 mapa_dados, melhor_parceiro_cidade, cancelamentos_diarios,
                 anomalias, insight1>>

LinhasDistancia ==
  [parceiro : ParceirosDistancia, faixa_distancia : Faixas, taxa_cancelamento : Taxas]

\* The script before the recommendation column, the stages above it done on
\* a single delivered record.
InitRecomendacao ==
  /\ \E n \in 0..MaxLinhas : df_distancia \in [1..n -> LinhasDistancia]
  /\ df_entregas = RegistrosDoDia(1, 1, 0)
  /\ entregas = { Linha(r.id, r.data_hora, r.parceiro, r.cidade, r.status_entrega) :
                    r \in df_entregas }
  /\ data_inicio = 0
  /\ data_fim = MaxDiasPico * HorasPorDia
  /\ parceiro_filtro = "Todos"
  /\ cidade_filtro = "Todas"
  /\ PainelCalculado
  /\ cancelamentos_diarios = <<>>
  /\ anomalias = {}
  /\ insight1 = "nenhum"
  /\ recomendacao = "nenhuma"
  /\ pc = "insights3"

SpecRecomendacao == InitRecomendacao /\ [][Recomendar]_vars

\* ------------------------------------------------------------ a whole run
\* Any interaction (the 'Atualizar Dados' button, a widget) runs the script
\* again from the top.
Atualizar ==
  /\ pc = "fim"
  /\ pc' = "carregar"
  /\ df_entregas' = {}
  /\ total_entregas' = 0
  /\ total_cancelamentos' = 0
  /\ taxa_cancelamento' = <<0, 1>>
  /\ melhor_parceiro' = "N/A"
  /\ mapa_dados' = <<>>
  /\ melhor_parceiro_cidade' = <<>>
  /\ cancelamentos_diarios' = <<>>
  /\ anomalias' = {}
  /\ insight1' = "nenhum"
  /\ recomendacao' = "nenhuma"
  /\ UNCHANGED <<entregas, df_distancia, filtros>>

Next ==
  \/ CarregarDados
  \/ CalcularKPIs
  \/ SemDados
  \/ AgregarMapa
  \/ DetectarAnomalias
  \/ Recomendar
  \/ Atualizar

Spec == Init /\ [][Next]_vars

SpecLoad == Init /\ [][CarregarDados]_vars

\* ------------------------------------------------------------------ claims
Carregado == pc # "carregar"

Ativo(s, sentinela) == s # None /\ s # "" /\ s # sentinela

\* C1: after the load the filtered set holds exactly the rows of the table
\* whose timestamp t has data_inicio <= t <= data_fim, whose partner is the
\* partner selector unless that is "Todos" or absent, and whose city is the
\* city selector unless that is "Todas" or absent; it is empty when
\* data_inicio > data_fim.
C1_FiltroExato ==
  Carregado =>
    /\ { r.id : r \in df_entregas } =
         { l.id : l \in
             { l \in entregas :
                 /\ data_inicio <= to_datetime(l.data_hora)
                 /\ to_datetime(l.data_hora) <= data_fim
                 /\ Ativo(parceiro_filtro, "Todos") => l.parceiro = parceiro_filtro
                 /\ Ativo(cidade_filtro, "Todas") => l.cidade = cidade_filtro } }
    /\ \A r \in df_entregas : \E l \in entregas :
         /\ l.id = r.id
         /\ l.parceiro = r.parceiro
         /\ l.cidade = r.cidade
         /\ l.status_entrega = r.status_entrega
         /\ to_datetime(l.data_hora) = r.data_hora
    /\ Cardinality(df_entregas) <= Cardinality(entregas)
    /\ (data_inicio > data_fim => df_entregas = {})

\* A load that keeps one row stamped exactly data_fim and drops another row
\* for its city.
C1_Witness ==
  /\ Carregado
  /\ Ativo(cidade_filtro, "Todas")
  /\ data_inicio < data_fim
  /\ \E r \in df_entregas : r.data_hora = data_fim
  /\ \E l \in entregas :
       /\ l.cidade # cidade_filtro
       /\ l.id \notin { r.id : r \in df_entregas }

KPIsCalculados == pc \in {"mapa", "insights1", "insights3", "fim"} /\ df_entregas # {}

\* C2: for a non-empty filtered set the headline cancellation rate lies in
\* [0, 100], and it is 0 exactly when no record of the set is cancelled.
C2_TaxaEntre0e100 ==
  KPIsCalculados =>
    /\ taxa_cancelamento[2] > 0
    /\ 0 <= taxa_cancelamento[1]
    /\ taxa_cancelamento[1] <= 100 * taxa_cancelamento[2]
    /\ (taxa_cancelamento[1] = 0) <=>
         (\A r \in df_entregas : r.status_entrega # "cancelado")

\* A set with a cancelled record and a record that is neither delivered nor
\* cancelled: the rate is strictly between 0 and 100.
C2_Witness ==
  /\ KPIsCalculados
  /\ \E r \in df_entregas : r.status_entrega = "pendente"
  /\ 0 < taxa_cancelamento[1]
  /\ taxa_cancelamento[1] < 100 * taxa_cancelamento[2]

MapaCalculado == pc \in {"insights1", "insights3", "fim"} /\ df_entregas # {}

ColunaMapa(campo(_)) == [ i \in 1..Len(mapa_dados) |-> campo(mapa_dados[i]) ]

\* C3: the per-city aggregate has exactly one row per distinct city of the
\* filtered set, its total_entregas add up to the number of records, and its
\* cancelamentos add up to the global cancelled count.
C3_ParticaoPorCidade ==
  MapaCalculado =>
    /\ { mapa_dados[i].cidade : i \in 1..Len(mapa_dados) } =
         { r.cidade : r \in df_entregas }
    /\ \A i, j \in 1..Len(mapa_dados) :
         mapa_dados[i].cidade = mapa_dados[j].cidade => i = j
    /\ Soma(ColunaMapa(LAMBDA l : l.total_entregas)) = Cardinality(df_entregas)
    /\ Soma(ColunaMapa(LAMBDA l : l.total_entregas)) = total_entregas
    /\ Soma(ColunaMapa(LAMBDA l : l.cancelamentos)) = total_cancelamentos

\* Two cities, one of them with two partners that delivered, and a cancelled
\* record.
C3_Witness ==
  /\ MapaCalculado
  /\ Len(mapa_dados) = 2
  /\ total_cancelamentos > 0
  /\ \E r, q \in Entregues(df_entregas) :
       r.cidade = q.cidade /\ r.parceiro # q.parceiro

EntreguesDe(p) == Cardinality({ r \in Entregues(df_entregas) : r.parceiro = p })

\* C4: for a non-empty filtered set the global best partner is a partner
\* whose count of delivered records is maximal, and it is "N/A" exactly when
\* the set has no delivered record.
C4_MelhorParceiroGlobal ==
  KPIsCalculados =>
    /\ (melhor_parceiro = "N/A") <=> (Entregues(df_entregas) = {})
    /\ melhor_parceiro # "N/A" =>
         /\ melhor_parceiro \in { r.parceiro : r \in Entregues(df_entregas) }
         /\ \A p \in Parceiros : EntreguesDe(p) <= EntreguesDe(melhor_parceiro)

\* The partner that sorts last wins with strictly more delivered records.
C4_Witness ==
  /\ KPIsCalculados
  /\ melhor_parceiro = "Uber"
  /\ EntreguesDe("99") > 0
  /\ EntreguesDe("Uber") > EntreguesDe("99")

EntreguesEm(c, p) ==
  Cardinality({ r \in Entregues(df_entregas) : r.cidade = c /\ r.parceiro = p })

LinhasDe(s, c) == { i \in 1..Len(s) : s[i].cidade = c }

\* C5: every city with a delivered record has exactly one best performer, a
\* partner whose delivered count in the city is maximal; among the partners
\* that tie for the maximum it is the one the (city, partner) grouping lists
\* first.  The filtered set thus determines the partner of every city.
C5_MelhorPorCidade ==
  MapaCalculado =>
    \A c \in { r.cidade : r \in Entregues(df_entregas) } :
      /\ Cardinality(LinhasDe(melhor_parceiro_cidade, c)) = 1
      /\ \A i \in LinhasDe(melhor_parceiro_cidade, c) :
           LET p == melhor_parceiro_cidade[i].parceiro
           IN  /\ EntreguesEm(c, p) > 0
               /\ melhor_parceiro_cidade[i].entregas_sucesso = EntreguesEm(c, p)
               /\ \A q \in Parceiros : EntreguesEm(c, q) <= EntreguesEm(c, p)
               /\ \A q \in Parceiros :
                    EntreguesEm(c, q) = EntreguesEm(c, p) => Pos(p) <= Pos(q)
               /\ \A j \in LinhasDe(mapa_dados, c) : mapa_dados[j].parceiro = p

\* A city where both partners tie, and the first of the grouping is chosen.
C5_Witness ==
  /\ MapaCalculado
  /\ \E c \in Cidades :
       /\ EntreguesEm(c, "99") > 0
       /\ EntreguesEm(c, "99") = EntreguesEm(c, "Uber")
       /\ \E i \in LinhasDe(melhor_parceiro_cidade, c) :
            melhor_parceiro_cidade[i].parceiro = "99"

SemEntregues(c) ==
  /\ c \in { r.cidade : r \in df_entregas }
  /\ c \notin { r.cidade : r \in Entregues(df_entregas) }

\* C6: a city of the aggregate without a delivered record has no entry in the
\* best-performer selection; the merge keeps its row, exactly once, with the
\* missing-value marker (rendered 'nan') as its best partner, which is no
\* partner's name.
C6_CidadeSemEntregues ==
  MapaCalculado =>
    \A c \in Cidades : SemEntregues(c) =>
      /\ LinhasDe(melhor_parceiro_cidade, c) = {}
      /\ Cardinality(LinhasDe(mapa_dados, c)) = 1
      /\ \A i \in LinhasDe(mapa_dados, c) :
           /\ mapa_dados[i].parceiro = Nulo
           /\ mapa_dados[i].parceiro \notin { r.parceiro : r \in df_entregas }
           /\ mapa_dados[i].total_entregas =
                Cardinality({ r \in df_entregas : r.cidade = c })

\* One city without a delivered record beside one that has a best partner.
C6_Witness ==
  /\ MapaCalculado
  /\ \E c, d \in Cidades :
       /\ SemEntregues(c)
       /\ \E i \in LinhasDe(mapa_dados, c) : mapa_dados[i].parceiro = Nulo
       /\ \E i \in LinhasDe(mapa_dados, d) : mapa_dados[i].parceiro \in Parceiros

AnomaliasAvaliadas == pc \in {"insights3", "fim"} /\ df_entregas # {}

Rodou == insight1 \in {"anomalia", "sem_anomalia"}

Datas == { r.data : r \in df_entregas }
TotalNoDia(d) == Cardinality({ r \in df_entregas : r.data = d })
CanceladosNoDia(d) ==
  Cardinality({ r \in df_entregas : r.data = d /\ r.status_entrega = "cancelado" })

\* C7: detection runs (ending in 'anomalia' or 'sem_anomalia') if and only
\* if the set covers at least 3 distinct dates, and with fewer dates no date
\* is flagged and the column shows an outcome of its own, which is neither
\* silence nor one of the two detection messages.
C7_DeteccaoComTresDatas ==
  AnomaliasAvaliadas =>
    /\ Rodou <=> (Cardinality(Datas) >= 3)
    /\ Cardinality(Datas) < 3 =>
         /\ anomalias = {}
         /\ insight1 \notin {"nenhum", "anomalia", "sem_anomalia"}

\* Eight records on two dates: the guard on the number of records passed,
\* the daily rates were computed, the guard on the number of days failed and
\* the column rendered nothing.
C7_Witness ==
  /\ AnomaliasAvaliadas
  /\ Cardinality(df_entregas) = 8
  /\ Cardinality(Datas) = 2
  /\ Len(cancelamentos_diarios) = 2
  /\ anomalias = {}
  /\ insight1 = "nenhum"

TaxasIguais ==
  \A d, e \in Datas :
    CanceladosNoDia(d) * TotalNoDia(e) = CanceladosNoDia(e) * TotalNoDia(d)

\* C8: when the per-day series has at least 3 days and every day has the same
\* rate, no day is flagged and the column ends in a regular outcome: silence
\* or the 'sem_anomalia' message when detection ran.
C8_TaxasIguaisSemAnomalia ==
  (AnomaliasAvaliadas /\ Cardinality(Datas) >= 3 /\ TaxasIguais) =>
    /\ anomalias = {}
    /\ insight1 \in {"nenhum", "sem_anomalia"}
    /\ Cardinality(df_entregas) > 7 => insight1 = "sem_anomalia"

\* Detection ran on three days that share a rate above 0, with different
\* numbers of records.
C8_Witness ==
  /\ AnomaliasAvaliadas
  /\ Rodou
  /\ Cardinality(Datas) >= 3
  /\ TaxasIguais
  /\ \E d, e \in Datas : CanceladosNoDia(d) > 0 /\ TotalNoDia(d) # TotalNoDia(e)
  /\ anomalias = {}

\* Day d alone has cancellations.
UmPico(d) ==
  /\ d \in Datas
  /\ CanceladosNoDia(d) > 0
  /\ \A e \in Datas \ {d} : CanceladosNoDia(e) = 0

\* C9 as stated, at the largest rate there is (R = 100): whenever detection
\* ran on N >= 4 days of which one alone has cancellations, exactly that day
\* is flagged.
C9_Original ==
  (AnomaliasAvaliadas /\ Rodou /\ Cardinality(Datas) >= 4) =>
    \A d \in Datas :
      (UmPico(d) /\ CanceladosNoDia(d) = TotalNoDia(d)) => anomalias = {d}

\* C9 (amended): whenever detection ran on N >= 6 days of which one alone has
\* cancellations (at any rate R > 0), exactly that day is flagged.
C9_PicoSeisDias ==
  (AnomaliasAvaliadas /\ Rodou /\ Cardinality(Datas) >= 6) =>
    \A d \in Datas : UmPico(d) => anomalias = {d}

\* Six days, the spike at a rate below 100, and it is the one day flagged.
C9_Witness ==
  /\ AnomaliasAvaliadas
  /\ Rodou
  /\ Cardinality(Datas) = 6
  /\ \E d \in Datas :
       /\ UmPico(d)
       /\ CanceladosNoDia(d) < TotalNoDia(d)
       /\ anomalias = {d}

Recomendado == pc = "fim" /\ df_entregas # {} /\ df_distancia # <<>>

\* The rows of each partner in the long-distance bands, repeated rows kept.
UberLonga == Filtrar(df_distancia, "Uber", FaixasLongas)
NoveNoveLonga == Filtrar(df_distancia, "99", FaixasLongas)

\* C10: when both 'Uber' and '99' have rows in the long-distance bands, the
\* recommendation names the one whose mean cancellation rate over those rows
\* is lower ('99' when the means are equal); it is decided by those rows
\* alone, whatever the rows of other bands or partners.
C10_MenorMediaVence ==
  (Recomendado /\ UberLonga # <<>> /\ NoveNoveLonga # <<>>) =>
    LET u == SomaTaxas(UberLonga) * Len(NoveNoveLonga)
        n == SomaTaxas(NoveNoveLonga) * Len(UberLonga)
    IN  /\ u < n => recomendacao = "Uber para entregas > 4km"
        /\ n < u => recomendacao = "99 para entregas > 4km"
        /\ n = u => recomendacao = "99 para entregas > 4km"

\* Uber at 4 twice (the same row two times) against 99 at 6 over the long
\* bands: the repeated row counts twice in the mean of Uber.
C10_Witness ==
  /\ Recomendado
  /\ recomendacao = "Uber para entregas > 4km"
  /\ Len(UberLonga) = 2
  /\ UberLonga[1] = UberLonga[2]
  /\ UberLonga[1].taxa_cancelamento = 4
  /\ Len(NoveNoveLonga) = 1
  /\ NoveNoveLonga[1].taxa_cancelamento = 6

\* C11: when exactly one of 'Uber' and '99' has no row in the long-distance
\* bands, a recommendation is still rendered and it never names the partner
\* that has no data.
C11_SemDadosNuncaRecomendado ==
  (Recomendado /\ (UberLonga = <<>>) # (NoveNoveLonga = <<>>)) =>
    /\ recomendacao \in {"Uber para entregas > 4km", "99 para entregas > 4km"}
    /\ UberLonga = <<>> => recomendacao # "Uber para entregas > 4km"
    /\ NoveNoveLonga = <<>> => recomendacao # "99 para entregas > 4km"
====
